---- MODULE Spec2Model ----
(***************************************************************************)
(* Model of the platform-adaptive visual layer of tmworl/testttt:          *)
(*   src/ui/platform/detection.js         (device capability detection)    *)
(*   src/ui/platform/visualProperties.js  (visual property calculator)     *)
(*   src/ui/navigation/theme/platform.js  (navigation platform facts)      *)
(*                                                                         *)
(* The device metrics are read once when the modules are loaded and never  *)
(* change afterwards.  Every exported function is one action: it draws its *)
(* arguments from a small set, records the call in `call` and what the     *)
(* function returned (or threw) in `result`.                               *)
(*                                                                         *)
(* Numbers.  Screen sides and elevations are whole logical points.  Real   *)
(* valued outputs are kept in thousandths ("milli"): a corner radius of    *)
(* 50 is 50000, an opacity of 0.17 is 170.  The pixel ratio is kept in     *)
(* halves (2.5 is 5).                                                      *)
(***************************************************************************)
EXTENDS Integers, Sequences, FiniteSets, TLC

VARIABLES
  OS,                 \* Platform.OS
  WINDOW_WIDTH,       \* Dimensions.get('window').width, cached at load
  WINDOW_HEIGHT,      \* Dimensions.get('window').height, cached at load
  PIXEL_RATIO,        \* PixelRatio.get(), in halves
  isPad,              \* Platform.isPad
  currentHeight,      \* StatusBar.currentHeight (Android only)
  call,               \* the last call made and its arguments
  result              \* what that call returned or threw

vars ==
  <<OS, WINDOW_WIDTH, WINDOW_HEIGHT, PIXEL_RATIO, isPad, currentHeight, call, result>>

device == <<OS, WINDOW_WIDTH, WINDOW_HEIGHT, PIXEL_RATIO, isPad, currentHeight>>

(***************************************************************************)
(* Bounds of the model                                                     *)
(***************************************************************************)
\* elevations tried range from -ElevationSlack to 24 + ElevationSlack
ElevationSlack == 6

\* Platform.OS values: the primary OS, the secondary OS and any other host
OSFamilies == {"ios", "android", "web"}

\* logical window sides the host may report (phones in either orientation,
\* the two Dynamic Island widths, tablets)
ScreenSides == {320, 375, 393, 400, 430, 812, 852, 1024}

\* PixelRatio.get() in halves: 1, 2, 2.5, 3
PixelRatios == {2, 4, 5, 6}

(***************************************************************************)
(* JavaScript values that may be absent                                    *)
(***************************************************************************)
Undefined == [type |-> "undefined"]

Num(n) == [type |-> "number", val |-> n]

Str(s) == [type |-> "string", val |-> s]

Min(a, b) == IF a < b THEN a ELSE b

Max(a, b) == IF a > b THEN a ELSE b

(***************************************************************************)
(* detection.js: module constants                                          *)
(***************************************************************************)
IS_IOS == OS = "ios"

IS_ANDROID == OS = "android"

(***************************************************************************)
(* visualProperties.js: getShadowParams                                    *)
(***************************************************************************)
\* Math.pow(n, 0.7) * 0.8 in thousandths, for n = 0, 1, 2, ...
PowTable ==
  <<0, 800, 1300, 1726, 2111, 2468, 2804, 3124, 3430, 3724, 4009, 4286,
    4555, 4818, 5074, 5325, 5572, 5813, 6050, 6284, 6513, 6740, 6963, 7183,
    7400, 7615, 7827, 8036, 8243, 8448, 8651, 8852, 9051, 9248, 9443, 9637,
    9829, 10019, 10208, 10395, 10581>>

ShadowRadiusMilli(n) == PowTable[n + 1]

\* the mutant forgets the upper limit
NormalizeElevationNoUpper(elevation) == Max(0, elevation)

\* Math.max(0, Math.min(24, elevation))
NormalizeElevation(elevation) == Max(0, Min(24, elevation))

\* the object literal `shadow` is first bound to
BaseShadow(normalizedElevation) ==
  [shadowColor |-> "#000",
   shadowOffset |-> [width |-> 0, height |-> 0],
   shadowOpacity |-> 0,
   shadowRadius |-> 0,
   elevation |-> IF IS_ANDROID THEN Num(normalizedElevation) ELSE Undefined]

\* the object literal built in the iOS branch; it has no elevation key
IOSShadow(normalizedElevation) ==
  [shadowColor |-> "#000",
   shadowOffset |->
     [width |-> 0,
      height |-> IF normalizedElevation < 8
                 THEN normalizedElevation * normalizedElevation * 125
                 ELSE normalizedElevation * 1000],
   shadowOpacity |-> 180 - normalizedElevation * 10,
   shadowRadius |-> ShadowRadiusMilli(normalizedElevation)]

\* the mutant lacks the early return for elevation 0
ShadowForNoZeroReturn(normalizedElevation) ==
  IF IS_IOS THEN IOSShadow(normalizedElevation)
  ELSE BaseShadow(normalizedElevation)

\* the mutant computes the iOS shadow on every platform
ShadowForEveryOS(normalizedElevation) ==
  IF normalizedElevation = 0 THEN BaseShadow(normalizedElevation)
  ELSE IOSShadow(normalizedElevation)

\* lines 101-131: which of the two objects is returned
ShadowFor(normalizedElevation) ==
  IF normalizedElevation = 0 THEN BaseShadow(normalizedElevation)
  ELSE IF IS_IOS THEN IOSShadow(normalizedElevation)
  ELSE BaseShadow(normalizedElevation)

\* elevation is a JS value: a number, or undefined (the default 1 applies)
getShadowParams(elevation) ==
  LET e == IF elevation = Undefined THEN 1 ELSE elevation.val
  IN  ShadowFor(NormalizeElevation(e))

ElevationArgs ==
  {Num(e) : e \in (0 - ElevationSlack)..(24 + ElevationSlack)} \cup {Undefined}

(***************************************************************************)
(* detection.js: capability functions                                      *)
(***************************************************************************)
\* the mutant accepts either side, as IS_IPHONE_X_OR_NEWER of platform.js does
hasNotchOrDynamicIslandEitherSide ==
  IF ~IS_IOS THEN FALSE
  ELSE (WINDOW_HEIGHT >= 812 \/ WINDOW_WIDTH >= 812) /\ ~isPad

hasNotchOrDynamicIsland ==
  IF ~IS_IOS THEN FALSE
  ELSE WINDOW_HEIGHT >= 812 /\ ~isPad

\* WINDOW_HEIGHT / WINDOW_WIDTH > 2.1 and the converse, without division
isIPhone12OrNewer ==
  IF ~IS_IOS THEN FALSE
  ELSE IF Min(WINDOW_WIDTH, WINDOW_HEIGHT) < 375 THEN FALSE
  ELSE /\ \/ 10 * WINDOW_HEIGHT > 21 * WINDOW_WIDTH
          \/ 10 * WINDOW_WIDTH > 21 * WINDOW_HEIGHT
       /\ WINDOW_HEIGHT >= 812

\* the mutant accepts any width a little over the reference ones
hasDynamicIslandRange ==
  IF ~IS_IOS THEN FALSE
  ELSE IF isPad THEN FALSE
  ELSE LET portraitWidth == Min(WINDOW_WIDTH, WINDOW_HEIGHT)
       IN  (portraitWidth >= 393 /\ portraitWidth <= 430) /\ hasNotchOrDynamicIsland

hasDynamicIsland ==
  IF ~IS_IOS THEN FALSE
  ELSE IF isPad THEN FALSE
  ELSE LET portraitWidth == Min(WINDOW_WIDTH, WINDOW_HEIGHT)
       IN  (portraitWidth = 393 \/ portraitWidth = 430) /\ hasNotchOrDynamicIsland

\* the mutant gives every tablet Face ID
hasFaceIDAnyPad ==
  IF ~IS_IOS THEN FALSE
  ELSE IF isPad THEN TRUE
  ELSE hasNotchOrDynamicIsland

hasFaceID ==
  IF ~IS_IOS THEN FALSE
  ELSE IF isPad THEN Max(WINDOW_WIDTH, WINDOW_HEIGHT) >= 1024
  ELSE hasNotchOrDynamicIsland

hasHomeIndicator ==
  IF ~IS_IOS THEN FALSE
  ELSE hasFaceID

\* the mutant uses the notch height of navigation/theme/platform.js
getStatusBarHeight44 ==
  IF IS_IOS
  THEN IF isPad THEN 24
       ELSE IF hasNotchOrDynamicIsland THEN 44 ELSE 20
  ELSE 24

getStatusBarHeight ==
  IF IS_IOS
  THEN IF isPad THEN 24
       ELSE IF hasNotchOrDynamicIsland THEN 47 ELSE 20
  ELSE 24

getBottomInset ==
  IF IS_IOS
  THEN IF hasHomeIndicator THEN 34 ELSE 0
  ELSE 0

supportsBlurEffects == IF IS_IOS THEN TRUE ELSE FALSE

supportsHaptics == IS_IOS

\* the mutant takes the bands of the pixel ratio strictly
getMaxBlurIntensityStrict ==
  IF IS_IOS THEN 100
  ELSE IF IS_ANDROID
  THEN IF PIXEL_RATIO > 6 THEN 80
       ELSE IF PIXEL_RATIO > 5 THEN 60
       ELSE IF PIXEL_RATIO > 4 THEN 40
       ELSE 20
  ELSE 40

\* PIXEL_RATIO is in halves: 3 is 6, 2.5 is 5, 2 is 4
getMaxBlurIntensity ==
  IF IS_IOS THEN 100
  ELSE IF IS_ANDROID
  THEN IF PIXEL_RATIO >= 6 THEN 80
       ELSE IF PIXEL_RATIO >= 5 THEN 60
       ELSE IF PIXEL_RATIO >= 4 THEN 40
       ELSE 20
  ELSE 40

getSafeAreaInsets ==
  [top |-> getStatusBarHeight, bottom |-> getBottomInset, left |-> 0, right |-> 0]

(***************************************************************************)
(* navigation/theme/platform.js                                            *)
(***************************************************************************)
IS_IPHONE_X_OR_NEWER ==
  IS_IOS /\ ~isPad /\ (WINDOW_HEIGHT >= 812 \/ WINDOW_WIDTH >= 812)

\* StatusBar.currentHeight > 24 is false when currentHeight is undefined
hasNotch ==
  IS_IPHONE_X_OR_NEWER
    \/ (IS_ANDROID /\ currentHeight.type = "number" /\ currentHeight.val > 24)

\* sqrt((w * scale)^2 + (h * scale)^2) >= 1000, squared; the scale is in halves
isTablet ==
  (WINDOW_WIDTH * WINDOW_WIDTH + WINDOW_HEIGHT * WINDOW_HEIGHT)
      * PIXEL_RATIO * PIXEL_RATIO >= 4000000

\* a function exported by reference, as visualProperties.js reads it
FunctionRef(name) == [type |-> "function", val |-> name]

\* JavaScript truthiness of the values the model passes around
Truthy(v) ==
  CASE v.type = "undefined" -> FALSE
    [] v.type = "null" -> FALSE
    [] v.type = "number" -> v.val # 0
    [] v.type = "string" -> v.val # ""
    [] OTHER -> TRUE

(***************************************************************************)
(* navigation/theme/platform.js: functions (prefixed where detection.js    *)
(* exports the same name)                                                  *)
(***************************************************************************)
\* hasHomeIndicator of platform.js
platformHasHomeIndicator == IS_IPHONE_X_OR_NEWER

\* getStatusBarHeight of platform.js; StatusBar.currentHeight || 0 off iOS
platformGetStatusBarHeight(skipAndroid) ==
  IF IS_IOS THEN (IF hasNotch THEN 44 ELSE 20)
  ELSE IF skipAndroid THEN 0
  ELSE IF Truthy(currentHeight) THEN currentHeight.val ELSE 0

getBottomSpace == IF platformHasHomeIndicator THEN 34 ELSE 0

getTabBarHeight == (IF IS_IOS THEN 49 ELSE 56) + getBottomSpace

getHeaderHeight == platformGetStatusBarHeight(FALSE) + (IF IS_IOS THEN 44 ELSE 56)

\* config.key, undefined when the key is missing
Field(config, key) == IF key \in DOMAIN config THEN config[key] ELSE Undefined

\* Platform.select of react-native: the value of the running OS, else default
PlatformSelect(spec) ==
  IF IS_IOS THEN Field(spec, "ios")
  ELSE IF IS_ANDROID THEN Field(spec, "android")
  ELSE Field(spec, "default")

\* select of platform.js
select(config) ==
  LET baseValue ==
        PlatformSelect(
          [ios |-> Field(config, "ios"),
           android |-> Field(config, "android"),
           default |->
             IF Truthy(Field(config, "default")) THEN Field(config, "default")
             ELSE IF Truthy(Field(config, "android")) THEN Field(config, "android")
             ELSE Field(config, "ios")])
  IN  IF IS_IOS /\ hasNotch /\ Truthy(Field(config, "iosNotch"))
      THEN config.iosNotch
      ELSE baseValue

(***************************************************************************)
(* navigation/theme/tokens.js: the token tree, built when the module loads *)
(***************************************************************************)
\* a value read from the core theme (../../theme), kept by its path
ThemeRef(path) == [type |-> "theme", val |-> path]

spacingTokens ==
  [header |->
     [height |-> select([ios |-> Num(44), android |-> Num(56)]),
      paddingHorizontal |-> select([ios |-> Num(16), android |-> Num(16)]),
      statusBarHeight |-> Num(platformGetStatusBarHeight(FALSE)),
      elevation |-> select([ios |-> Num(0), android |-> Num(4)])],
   tabBar |->
     [height |-> Num(getTabBarHeight),
      itemPadding |-> select([ios |-> Num(4), android |-> Num(8)]),
      iconMargin |-> select([ios |-> Num(4), android |-> Num(0)]),
      bottomInset |-> Num(getBottomSpace)],
   screen |-> [paddingHorizontal |-> ThemeRef("spacing.medium")]]

\* Platform.select({ios: 'System', android: 'Roboto', default: undefined})
tokenFontFamily ==
  PlatformSelect([ios |-> Str("System"), android |-> Str("Roboto"), default |-> Undefined])

typographyTokens ==
  [header |->
     [title |->
        [fontFamily |-> tokenFontFamily,
         fontSize |-> select([ios |-> Num(17), android |-> Num(20)]),
         fontWeight |-> select([ios |-> Str("600"), android |-> Str("500")]),
         color |-> ThemeRef("colors.text")],
      backTitle |->
        [fontFamily |-> tokenFontFamily,
         fontSize |-> Num(17),
         fontWeight |-> Str("400"),
         color |-> ThemeRef("colors.primary")]],
   tabBar |->
     [label |->
        [fontFamily |-> tokenFontFamily,
         fontSize |-> select([ios |-> Num(10), android |-> Num(12)]),
         fontWeight |-> select([ios |-> Str("500"), android |-> Str("400")]),
         activeColor |-> ThemeRef("colors.primary"),
         inactiveColor |-> Str("#8E8E93")]]]

colorTokens ==
  [background |->
     [header |-> select([ios |-> Str("#FFFFFF"), android |-> ThemeRef("colors.primary")]),
      tabBar |-> Str("#FFFFFF"),
      card |-> Str("#FFFFFF"),
      modal |-> Str("#FFFFFF")],
   border |->
     [header |-> select([ios |-> Str("#C8C8CC"), android |-> Str("transparent")]),
      tabBar |-> Str("#C8C8CC")],
   tint |->
     [header |-> select([ios |-> ThemeRef("colors.primary"), android |-> Str("#FFFFFF")]),
      tabBarActive |-> ThemeRef("colors.primary"),
      tabBarInactive |-> Str("#8E8E93")]]

\* shadow values in thousandths where they are fractions
elevationTokens ==
  [header |->
     select([ios |-> [type |-> "object", shadowColor |-> "#000",
                      shadowOffset |-> [width |-> 0, height |-> 1000],
                      shadowOpacity |-> 100, shadowRadius |-> 2000],
             android |-> [type |-> "object", elevation |-> 4]]),
   tabBar |->
     select([ios |-> [type |-> "object", shadowColor |-> "#000",
                      shadowOffset |-> [width |-> 0, height |-> 0 - 1000],
                      shadowOpacity |-> 100, shadowRadius |-> 4000],
             android |-> [type |-> "object", elevation |-> 8]])]

animationTokens ==
  [timing |->
     [standard |-> select([ios |-> Num(350), android |-> Num(300)]),
      fast |-> select([ios |-> Num(200), android |-> Num(150)])],
   easing |-> [type |-> "object"]]

navigationTokens ==
  [spacing |-> spacingTokens,
   typography |-> typographyTokens,
   colors |-> colorTokens,
   elevation |-> elevationTokens,
   animation |-> animationTokens]

(***************************************************************************)
(* visualProperties.js: getCornerRadius                                    *)
(***************************************************************************)
Null == [type |-> "null"]

\* fallbackMap[variant] || 8, in thousandths
fallbackMap(variant) ==
  CASE variant = "small" -> 4000
    [] variant = "standard" -> 8000
    [] variant = "large" -> 12000
    [] variant = "pill" -> 20000
    [] OTHER -> 8000

\* x || 0 for a property that is a number or missing
OrZero(v) == IF Truthy(v) THEN v.val ELSE 0

\* seven binary digits of the fraction of log10; y is in thousandths, 1 <= y < 10
RECURSIVE Log10Frac(_, _, _)
Log10Frac(y, bit, acc) ==
  IF bit > 7 THEN acc
  ELSE LET sq == (y * y) \div 1000
       IN  IF sq >= 10000
           THEN Log10Frac(sq \div 10, bit + 1, 2 * acc + 1)
           ELSE Log10Frac(sq, bit + 1, 2 * acc)

RECURSIVE Log10Int(_, _)
Log10Int(y, n) ==
  IF y >= 10000 THEN Log10Int(y \div 10, n + 1)
  ELSE n * 100 + (Log10Frac(y, 1, 0) * 100) \div 128

\* Math.log10(x) in hundredths, for x >= 1 (exact on powers of ten)
Log10Centi(x) == Log10Int(x * 1000, 0)

\* baseRadius of the switch, in points
baseRadiusOf(variant) ==
  CASE variant = "small" -> 4
    [] variant = "large" -> 16
    [] OTHER -> 10

\* scaleFactor of the switch, in ten-thousandths
scaleFactorOf(variant) ==
  CASE variant = "small" -> 800
    [] variant = "large" -> 1200
    [] OTHER -> 1000

\* the platform-specific adjustment of scaleFactor (lines 56-66)
adjustScaleFactor(scaleFactor) ==
  IF IS_IOS
  THEN IF Truthy(FunctionRef("isIPhone12OrNewer"))
       THEN (scaleFactor * 12) \div 10
       ELSE scaleFactor
  ELSE IF IS_ANDROID THEN (scaleFactor * 3) \div 4
  ELSE scaleFactor

\* lines 68-76: the logarithmic radius and its clamp, in thousandths
clampedRadius(baseSize, variant) ==
  LET baseRadius == baseRadiusOf(variant)
      scaleFactor == adjustScaleFactor(scaleFactorOf(variant))
      computedRadius ==
        baseRadius * 1000
          + (Log10Centi(Max(100, baseSize)) * baseSize * scaleFactor) \div 20000
      minRadius == baseRadius * 500
      maxRadius == baseSize * 250
  IN  Max(minRadius, Min(computedRadius, maxRadius))

\* the mutant returns the smaller side itself
pillRadiusWhole(baseSize) == baseSize * 1000

\* case 'pill': baseSize / 2, in thousandths
pillRadius(baseSize) == baseSize * 500

\* the mutant has no fallback for an unknown size
radiusForNoFallback(baseSize, variant) ==
  IF variant = "pill" THEN pillRadius(baseSize)
  ELSE clampedRadius(baseSize, variant)

radiusFor(baseSize, variant) ==
  IF baseSize = 0 THEN fallbackMap(variant)
  ELSE IF variant = "pill" THEN pillRadius(baseSize)
  ELSE clampedRadius(baseSize, variant)

\* size is an object {width, height}, undefined or null; variant is a string
\* or undefined (the default 'standard' applies).  Reading size.width of
\* undefined or null raises a TypeError.
getCornerRadius(size, variant) ==
  LET v == IF variant = Undefined THEN "standard" ELSE variant.val
  IN  IF size.type # "object" THEN [kind |-> "throw", error |-> "TypeError"]
      ELSE [kind |-> "return",
            value |-> radiusFor(Min(OrZero(size.width), OrZero(size.height)), v)]

\* a side of a size: missing, or a number of points
SizeSideArgs == {Undefined} \cup {Num(n) : n \in {0, 4, 100, 200, 1000}}

SizeArgs ==
  {Undefined, Null}
    \cup {[type |-> "object", width |-> w, height |-> h] :
            w \in SizeSideArgs, h \in SizeSideArgs}

VariantArgs ==
  {Undefined} \cup {Str(s) : s \in {"small", "standard", "large", "pill", "huge"}}

(***************************************************************************)
(* visualProperties.js: getBlurIntensity                                   *)
(***************************************************************************)
\* Math.round(num / den): the nearest integer, halves going up
Round(num, den) == (2 * num + den) \div (2 * den)

\* intensityMap[intensity] || intensityMap.regular
intensityMap(intensity) ==
  CASE intensity = "subtle" -> 10
    [] intensity = "light" -> 25
    [] intensity = "regular" -> 50
    [] intensity = "heavy" -> 80
    [] OTHER -> 50

\* the device capability as getBlurIntensity reads it (line 230)
deviceCapability == getMaxBlurIntensity

\* intensity is a string or undefined (the default 'regular' applies)
getBlurIntensity(intensity) ==
  LET level == IF intensity = Undefined THEN "regular" ELSE intensity.val
      baseIntensity == intensityMap(level)
  IN  Round(baseIntensity * deviceCapability, 100)

IntensityArgs ==
  {Undefined}
    \cup {Str(s) : s \in {"subtle", "light", "regular", "heavy", "extreme"}}

(***************************************************************************)
(* JavaScript strings whose characters matter are sequences of one         *)
(* character strings: '600' is <<"6", "0", "0">>                           *)
(***************************************************************************)
DigitChars == <<"0", "1", "2", "3", "4", "5", "6", "7", "8", "9">>

UpperChars ==
  <<"A", "B", "C", "D", "E", "F", "G", "H", "I", "J", "K", "L", "M",
    "N", "O", "P", "Q", "R", "S", "T", "U", "V", "W", "X", "Y", "Z">>

LowerChars ==
  <<"a", "b", "c", "d", "e", "f", "g", "h", "i", "j", "k", "l", "m",
    "n", "o", "p", "q", "r", "s", "t", "u", "v", "w", "x", "y", "z">>

IndexIn(chars, c) == CHOOSE i \in 1..Len(chars) : chars[i] = c

IsIn(chars, c) == \E i \in 1..Len(chars) : chars[i] = c

\* the UTF-16 code unit of a character
CodeUnit(c) ==
  IF IsIn(DigitChars, c) THEN 47 + IndexIn(DigitChars, c)
  ELSE IF IsIn(UpperChars, c) THEN 64 + IndexIn(UpperChars, c)
  ELSE IF IsIn(LowerChars, c) THEN 96 + IndexIn(LowerChars, c)
  ELSE IF c = "#" THEN 35
  ELSE 32

\* a < b for two strings: the order of their code units
RECURSIVE StringLess(_, _)
StringLess(a, b) ==
  IF b = <<>> THEN FALSE
  ELSE IF a = <<>> THEN TRUE
  ELSE IF CodeUnit(Head(a)) < CodeUnit(Head(b)) THEN TRUE
  ELSE IF CodeUnit(Head(a)) > CodeUnit(Head(b)) THEN FALSE
  ELSE StringLess(Tail(a), Tail(b))

IsDecimal(chars) == \A i \in 1..Len(chars) : IsIn(DigitChars, chars[i])

RECURSIVE DecimalValue(_)
DecimalValue(chars) ==
  IF chars = <<>> THEN 0
  ELSE 10 * DecimalValue(SubSeq(chars, 1, Len(chars) - 1))
         + (IndexIn(DigitChars, chars[Len(chars)]) - 1)

\* Number(v) is NaN for a string that is not a decimal numeral
IsNaN(v) == v.type = "string" /\ ~IsDecimal(v.val)

\* Number(v) of a number or of a decimal numeral ('' is 0)
ToNumber(v) == IF v.type = "number" THEN v.val ELSE DecimalValue(v.val)

\* the mutant compares with > instead of >=
GreaterThan(x, y) ==
  IF x.type = "string" /\ y.type = "string"
  THEN StringLess(y.val, x.val)
  ELSE ~IsNaN(x) /\ ~IsNaN(y) /\ ToNumber(x) > ToNumber(y)

\* x >= y: two strings are compared as strings, anything else as numbers
GreaterOrEqual(x, y) ==
  IF x.type = "string" /\ y.type = "string"
  THEN ~StringLess(x.val, y.val)
  ELSE ~IsNaN(x) /\ ~IsNaN(y) /\ ToNumber(x) >= ToNumber(y)

(***************************************************************************)
(* visualProperties.js: getOpticalTypography                               *)
(***************************************************************************)
\* weightMap[weight]; undefined for a key the map lacks
weightMap(weight) ==
  IF weight.type # "string" THEN Undefined
  ELSE CASE weight.val = <<"n", "o", "r", "m", "a", "l">> -> Str(<<"4", "0", "0">>)
         [] weight.val = <<"r", "e", "g", "u", "l", "a", "r">> -> Str(<<"4", "0", "0">>)
         [] weight.val = <<"m", "e", "d", "i", "u", "m">> -> Str(<<"5", "0", "0">>)
         [] weight.val = <<"s", "e", "m", "i", "b", "o", "l", "d">> -> Str(<<"6", "0", "0">>)
         [] weight.val = <<"b", "o", "l", "d">> -> Str(<<"7", "0", "0">>)
         [] OTHER -> Undefined

\* a string is truthy unless it is empty
TruthyValue(v) == IF v.type = "string" THEN v.val # <<>> ELSE Truthy(v)

\* weightMap[weight] || weight || '400'
numericWeightOf(weight) ==
  IF TruthyValue(weightMap(weight)) THEN weightMap(weight)
  ELSE IF TruthyValue(weight) THEN weight
  ELSE Str(<<"4", "0", "0">>)

\* the tracking of the size band, in thousandths
baseTracking(fontSize) ==
  IF fontSize < 14 THEN 500
  ELSE IF fontSize < 20 THEN 200
  ELSE IF fontSize < 34 THEN 0
  ELSE 0 - 500

\* numericWeight >= '600' adds 0.1
trackingOf(fontSize, numericWeight) ==
  IF GreaterOrEqual(numericWeight, Str(<<"6", "0", "0">>))
  THEN baseTracking(fontSize) + 100
  ELSE baseTracking(fontSize)

\* Math.round(fontSize * factor)
lineHeightOf(fontSize) ==
  IF fontSize < 14 THEN Round(fontSize * 130, 100)
  ELSE IF fontSize < 20 THEN Round(fontSize * 125, 100)
  ELSE IF fontSize < 34 THEN Round(fontSize * 120, 100)
  ELSE Round(fontSize * 110, 100)

\* Platform.select({ios: undefined, android: 'Roboto', default: undefined})
typographyFontFamily == IF IS_ANDROID THEN Str("Roboto") ELSE Undefined

\* weight is a string, a number or undefined (the default 'normal' applies)
getOpticalTypography(fontSize, weight) ==
  LET w == IF weight = Undefined
           THEN Str(<<"n", "o", "r", "m", "a", "l">>) ELSE weight
      numericWeight == numericWeightOf(w)
  IN  [fontSize |-> fontSize,
       fontWeight |-> numericWeight,
       letterSpacing |-> trackingOf(fontSize, numericWeight),
       lineHeight |-> lineHeightOf(fontSize),
       fontFamily |-> typographyFontFamily]

FontSizeArgs == {10, 13, 14, 19, 20, 33, 34, 40}

SymbolicWeights ==
  {<<"n", "o", "r", "m", "a", "l">>, <<"r", "e", "g", "u", "l", "a", "r">>,
   <<"m", "e", "d", "i", "u", "m">>, <<"s", "e", "m", "i", "b", "o", "l", "d">>,
   <<"b", "o", "l", "d">>}

\* weights the map lacks: numerals, a word, the empty string
OtherWeights ==
  {<<"1", "0", "0">>, <<"4", "0", "0">>, <<"5", "9", "9">>, <<"6", "0", "0">>,
   <<"8", "0", "0">>, <<"9", "0", "0">>, <<"1", "0", "0", "0">>,
   <<"h", "e", "a", "v", "y">>, <<>>}

WeightArgs ==
  {Undefined, Num(700), Num(1000), Num(100)}
    \cup {Str(w) : w \in SymbolicWeights \cup OtherWeights}

(***************************************************************************)
(* visualProperties.js: getBackdropColor                                   *)
(***************************************************************************)
\* [a-f\d] with the i flag
IsHexChar(c) ==
  \/ IsIn(DigitChars, c)
  \/ IsIn(SubSeq(LowerChars, 1, 6), c)
  \/ IsIn(SubSeq(UpperChars, 1, 6), c)

\* the value parseInt(c, 16) gives a hex digit
HexValue(c) ==
  IF IsIn(DigitChars, c) THEN IndexIn(DigitChars, c) - 1
  ELSE IF IsIn(LowerChars, c) THEN 9 + IndexIn(LowerChars, c)
  ELSE 9 + IndexIn(UpperChars, c)

\* the string without an optional leading '#'
AfterHash(hex) ==
  IF hex # <<>> /\ Head(hex) = "#" THEN Tail(hex) ELSE hex

\* ^#?([a-f\d])([a-f\d])([a-f\d])$
MatchesShorthand(hex) ==
  /\ Len(AfterHash(hex)) = 3
  /\ \A i \in 1..3 : IsHexChar(AfterHash(hex)[i])

\* ^#?([a-f\d]{2})([a-f\d]{2})([a-f\d]{2})$
MatchesFull(hex) ==
  /\ Len(AfterHash(hex)) = 6
  /\ \A i \in 1..6 : IsHexChar(AfterHash(hex)[i])

\* the mutant does not double the digits
expandShorthandSingle(hex) ==
  IF MatchesShorthand(hex)
  THEN LET d == AfterHash(hex) IN <<d[1], d[2], d[3]>>
  ELSE hex

\* hex.replace(shorthandRegex, (m, r, g, b) => r + r + g + g + b + b)
expandShorthand(hex) ==
  IF MatchesShorthand(hex)
  THEN LET d == AfterHash(hex) IN <<d[1], d[1], d[2], d[2], d[3], d[3]>>
  ELSE hex

\* the mutant falls back to black
fallbackRgbBlack == [r |-> 0, g |-> 0, b |-> 0]

\* the colour substituted for a string that does not parse
fallbackRgb == [r |-> 255, g |-> 255, b |-> 255]

hexToRgb(hex) ==
  LET fullHex == expandShorthand(hex)
      d == AfterHash(fullHex)
  IN  IF MatchesFull(fullHex)
      THEN [r |-> 16 * HexValue(d[1]) + HexValue(d[2]),
            g |-> 16 * HexValue(d[3]) + HexValue(d[4]),
            b |-> 16 * HexValue(d[5]) + HexValue(d[6])]
      ELSE fallbackRgb

\* Math.max(0, Math.min(1, opacity)), in thousandths
clampOpacity(opacity) == Max(0, Min(1000, opacity))

\* the template literal `rgba(${r}, ${g}, ${b}, ${a})`, part by part
rgbaString(rgb, a) == <<"rgba(", rgb.r, ", ", rgb.g, ", ", rgb.b, ", ", a, ")">>

\* baseColor is a string or undefined (the default '#FFFFFF' applies);
\* opacity is a number in thousandths or undefined (the default 0.8 applies)
getBackdropColor(baseColor, opacity) ==
  LET hex == IF baseColor = Undefined
             THEN <<"#", "F", "F", "F", "F", "F", "F">> ELSE baseColor.val
      o == IF opacity = Undefined THEN 800 ELSE opacity.val
  IN  rgbaString(hexToRgb(hex), clampOpacity(o))

\* well formed colours: three or six hex digits, with or without '#'
HexColors ==
  {<<"#", "f", "f", "f">>, <<"f", "f", "f">>, <<"#", "F", "F", "F">>,
   <<"#", "b", "a", "d">>, <<"#", "B", "a", "D">>,
   <<"#", "f", "f", "f", "f", "f", "f">>, <<"1", "a", "2", "B", "3", "c">>,
   <<"#", "0", "0", "0", "0", "0", "0">>}

\* malformed colours: a wrong length or a character that is no hex digit
MalformedColors ==
  {<<>>, <<"#">>, <<"#", "f", "f">>, <<"#", "f", "f", "f", "f">>,
   <<"#", "f", "f", "f", "f", "f">>,
   <<"#", "f", "f", "f", "f", "f", "f", "f">>, <<"#", "g", "g", "g">>,
   <<"#", "g", "g", "g", "g", "g", "g">>, <<"r", "e", "d">>,
   <<"#", "#", "f", "f", "f">>, <<"#", "1", "2", "3", "4", "5", "z">>}

ColorArgs == {Undefined} \cup {Str(c) : c \in HexColors \cup MalformedColors}

\* opacities in thousandths
OpacityArgs ==
  {Undefined} \cup {Num(o) : o \in {0 - 500, 0, 500, 800, 1000, 2000}}

(***************************************************************************)
(* State machine                                                           *)
(***************************************************************************)
\* any device the host may report
Init ==
  /\ OS \in OSFamilies
  /\ WINDOW_WIDTH \in ScreenSides
  /\ WINDOW_HEIGHT \in ScreenSides
  /\ PIXEL_RATIO \in PixelRatios
  /\ isPad \in BOOLEAN
  /\ isPad => OS = "ios"          \* Platform.isPad is only set on iOS
  /\ currentHeight \in (IF OS = "android" THEN {Num(24), Num(32)} ELSE {Undefined})
  /\ call = [fn |-> "load"]
  /\ result = [kind |-> "none"]

\* the calculator reads only the OS, the pixel ratio and the exported
\* detection functions: two window shapes are enough for it
InitVisual ==
  /\ Init
  /\ WINDOW_WIDTH \in {320, 375}
  /\ WINDOW_HEIGHT = 812
  /\ ~isPad
  /\ currentHeight \in {Undefined, Num(24)}

Returns(v) == [kind |-> "return", value |-> v]

CallGetShadowParams ==
  \E elevation \in ElevationArgs :
    /\ call' = [fn |-> "getShadowParams", elevation |-> elevation]
    /\ result' = Returns(getShadowParams(elevation))
    /\ UNCHANGED device

CallGetCornerRadius ==
  \E size \in SizeArgs, variant \in VariantArgs :
    /\ call' = [fn |-> "getCornerRadius", size |-> size, variant |-> variant]
    /\ result' = getCornerRadius(size, variant)
    /\ UNCHANGED device

\* the detection functions take no argument
DetectionFns ==
  {"isIPhone12OrNewer", "hasNotchOrDynamicIsland", "hasDynamicIsland",
   "hasFaceID", "hasHomeIndicator", "getStatusBarHeight", "getBottomInset",
   "supportsBlurEffects", "supportsHaptics", "getMaxBlurIntensity",
   "getSafeAreaInsets"}

detection(fn) ==
  CASE fn = "isIPhone12OrNewer" -> isIPhone12OrNewer
    [] fn = "hasNotchOrDynamicIsland" -> hasNotchOrDynamicIsland
    [] fn = "hasDynamicIsland" -> hasDynamicIsland
    [] fn = "hasFaceID" -> hasFaceID
    [] fn = "hasHomeIndicator" -> hasHomeIndicator
    [] fn = "getStatusBarHeight" -> getStatusBarHeight
    [] fn = "getBottomInset" -> getBottomInset
    [] fn = "supportsBlurEffects" -> supportsBlurEffects
    [] fn = "supportsHaptics" -> supportsHaptics
    [] fn = "getMaxBlurIntensity" -> getMaxBlurIntensity
    [] fn = "getSafeAreaInsets" -> getSafeAreaInsets

CallDetection ==
  \E fn \in DetectionFns :
    /\ call' = [fn |-> fn]
    /\ result' = Returns(detection(fn))
    /\ UNCHANGED device

\* navigation/theme/platform.js: hasNotch() and isTablet()
CallHasNotch ==
  /\ call' = [fn |-> "platform.hasNotch"]
  /\ result' = Returns(hasNotch)
  /\ UNCHANGED device

CallIsTablet ==
  /\ call' = [fn |-> "platform.isTablet"]
  /\ result' = Returns(isTablet)
  /\ UNCHANGED device

CallGetBlurIntensity ==
  \E intensity \in IntensityArgs :
    /\ call' = [fn |-> "getBlurIntensity", intensity |-> intensity]
    /\ result' = Returns(getBlurIntensity(intensity))
    /\ UNCHANGED device

CallGetOpticalTypography ==
  \E fontSize \in FontSizeArgs, weight \in WeightArgs :
    /\ call' = [fn |-> "getOpticalTypography", fontSize |-> fontSize, weight |-> weight]
    /\ result' = Returns(getOpticalTypography(fontSize, weight))
    /\ UNCHANGED device

\* the functions platform.js exports besides hasNotch and isTablet
CallPlatform ==
  \/ \E skipAndroid \in BOOLEAN :
       /\ call' = [fn |-> "platform.getStatusBarHeight", skipAndroid |-> skipAndroid]
       /\ result' = Returns(platformGetStatusBarHeight(skipAndroid))
       /\ UNCHANGED device
  \/ /\ call' = [fn |-> "platform.getBottomSpace"]
     /\ result' = Returns(getBottomSpace)
     /\ UNCHANGED device
  \/ /\ call' = [fn |-> "platform.getTabBarHeight"]
     /\ result' = Returns(getTabBarHeight)
     /\ UNCHANGED device
  \/ /\ call' = [fn |-> "platform.getHeaderHeight"]
     /\ result' = Returns(getHeaderHeight)
     /\ UNCHANGED device

\* a consumer reads the token tree tokens.js exports
ReadNavigationTokens ==
  /\ call' = [fn |-> "navigationTokens"]
  /\ result' = Returns(navigationTokens)
  /\ UNCHANGED device

NextVisual ==
  \/ CallGetShadowParams
  \/ CallGetCornerRadius
  \/ CallGetBlurIntensity

Next ==
  \/ CallDetection
  \/ CallHasNotch
  \/ CallIsTablet
  \/ CallPlatform
  \/ ReadNavigationTokens

\* typography and colour read nothing of the device but the OS
InitText ==
  /\ InitVisual
  /\ WINDOW_WIDTH = 375
  /\ PIXEL_RATIO = 4
  /\ currentHeight \in {Undefined, Num(24)}

CallGetBackdropColor ==
  \E baseColor \in ColorArgs, opacity \in OpacityArgs :
    /\ call' = [fn |-> "getBackdropColor", baseColor |-> baseColor, opacity |-> opacity]
    /\ result' = Returns(getBackdropColor(baseColor, opacity))
    /\ UNCHANGED device

NextText ==
  \/ CallGetOpticalTypography
  \/ CallGetBackdropColor

\* the visual property calculator on a handful of devices
SpecVisual == InitVisual /\ [][NextVisual]_vars

\* the text and colour functions of the calculator, one device per OS
SpecText == InitText /\ [][NextText]_vars

\* the capability detector on every device
Spec == Init /\ [][Next]_vars

(***************************************************************************)
(* Properties of getShadowParams (checked under SpecVisual)                *)
(***************************************************************************)
\* the elevation limited to [0, 24], written out
Limit024(e) == IF e < 0 THEN 0 ELSE IF e > 24 THEN 24 ELSE e

ShadowCall == call.fn = "getShadowParams" /\ call.elevation.type = "number"

\* C1: for every elevation e, also below 0 and above 24, getShadowParams(e)
\* returns what getShadowParams of e limited to [0, 24] returns on the same
\* OS; so -5 gives the result of 0 and 30 the result of 24.
C1_ElevationClamped ==
  ShadowCall =>
    /\ result.kind = "return"
    /\ result.value = getShadowParams(Num(Limit024(call.elevation.val)))

\* on iOS elevation 30 returns the shadow of elevation 24
C1_Witness ==
  /\ ShadowCall
  /\ OS = "ios"
  /\ call.elevation.val = 30
  /\ result.value = getShadowParams(Num(24))
  /\ result.value.shadowRadius = 7400

\* C2: when the limited elevation is 0 the shadow is black with offset {0,0},
\* opacity 0 and radius 0 on every OS; its elevation field is 0 on Android
\* and undefined or absent on iOS.
C2_ZeroElevationShadow ==
  (ShadowCall /\ Limit024(call.elevation.val) = 0) =>
    /\ result.kind = "return"
    /\ result.value.shadowColor = "#000"
    /\ result.value.shadowOffset = [width |-> 0, height |-> 0]
    /\ result.value.shadowOpacity = 0
    /\ result.value.shadowRadius = 0
    /\ OS = "android" =>
         /\ "elevation" \in DOMAIN result.value
         /\ result.value.elevation = Num(0)
    /\ OS = "ios" =>
         \/ "elevation" \notin DOMAIN result.value
         \/ result.value.elevation = Undefined

\* on iOS a negative elevation returns the all-zero shadow
C2_Witness ==
  /\ ShadowCall
  /\ OS = "ios"
  /\ call.elevation.val = -3
  /\ result.value.shadowOpacity = 0
  /\ result.value.shadowRadius = 0
  /\ result.value.elevation = Undefined

\* C3: on Android, for every elevation, the elevation field is the elevation
\* limited to [0, 24] and radius, offset and opacity stay 0; on iOS with an
\* elevation above 0 the result has no elevation value.
C3_AndroidElevationOnly ==
  ShadowCall =>
    /\ OS = "android" =>
         /\ "elevation" \in DOMAIN result.value
         /\ result.value.elevation = Num(Limit024(call.elevation.val))
         /\ result.value.shadowRadius = 0
         /\ result.value.shadowOffset = [width |-> 0, height |-> 0]
         /\ result.value.shadowOpacity = 0
    /\ (OS = "ios" /\ Limit024(call.elevation.val) > 0) =>
         "elevation" \notin DOMAIN result.value

\* on Android elevation 30 returns elevation 24 and no computed shadow
C3_Witness ==
  /\ ShadowCall
  /\ OS = "android"
  /\ call.elevation.val = 30
  /\ result.value.elevation = Num(24)
  /\ result.value.shadowRadius = 0

(***************************************************************************)
(* Properties of getCornerRadius (checked under SpecVisual)                *)
(***************************************************************************)
RadiusCall == call.fn = "getCornerRadius"

\* the variant in effect: 'standard' when none is passed
VariantOfCall ==
  IF call.variant.type = "string" THEN call.variant.val ELSE "standard"

\* the size is an object
SizeGiven == RadiusCall /\ call.size.type = "object"

\* a side of the size that is a number is that number, a missing side is 0
SideOfCall(side) == IF side.type = "number" THEN side.val ELSE 0

SmallerSideOfCall ==
  LET w == SideOfCall(call.size.width)
      h == SideOfCall(call.size.height)
  IN  IF w < h THEN w ELSE h

\* the fallback table of the claim, in thousandths
FallbackOfClaim(variant) ==
  CASE variant = "small" -> 4000
    [] variant = "standard" -> 8000
    [] variant = "large" -> 12000
    [] variant = "pill" -> 20000
    [] OTHER -> 8000

\* C4: for every size whose smaller side is above 0, the 'pill' radius is
\* exactly half the smaller of width and height on every OS, with no
\* platform adjustment and no clamp.
C4_PillIsHalfSmallerSide ==
  (SizeGiven /\ SmallerSideOfCall > 0 /\ VariantOfCall = "pill") =>
    /\ result.kind = "return"
    /\ 2 * result.value = 1000 * SmallerSideOfCall

\* {width: 200, height: 100} gives 50 on Android
C4_Witness ==
  /\ SizeGiven
  /\ OS = "android"
  /\ call.size.width = Num(200)
  /\ call.size.height = Num(100)
  /\ VariantOfCall = "pill"
  /\ result.value = 50000

C6_AbsentSizeFallback ==
  (RadiusCall /\ call.size.type \in {"undefined", "null"}) =>
    /\ result.kind = "return"
    /\ result.value = FallbackOfClaim(VariantOfCall)

(***************************************************************************)
(* Properties of the capability detector (checked under Spec)              *)
(***************************************************************************)
LongerSide == IF WINDOW_WIDTH > WINDOW_HEIGHT THEN WINDOW_WIDTH ELSE WINDOW_HEIGHT

ShorterSide == IF WINDOW_WIDTH < WINDOW_HEIGHT THEN WINDOW_WIDTH ELSE WINDOW_HEIGHT

\* the large form factor of the claim: the diagonal in device pixels is at
\* least 1000, or the OS reports a tablet
LargeFormFactorOfClaim ==
  \/ (WINDOW_WIDTH * WINDOW_WIDTH + WINDOW_HEIGHT * WINDOW_HEIGHT)
       * PIXEL_RATIO * PIXEL_RATIO >= 4000000
  \/ isPad

C8_DynamicIslandExactWidths ==
  call.fn = "hasDynamicIsland" =>
    /\ result.value <=>
         (hasNotchOrDynamicIsland /\ (ShorterSide = 393 \/ ShorterSide = 430))
    /\ OS = "android" => ~result.value
    /\ isPad => ~result.value

\* an iOS phone 400 wide has a notch but no Dynamic Island
C8_Witness ==
  /\ call.fn = "hasDynamicIsland"
  /\ OS = "ios"
  /\ ~isPad
  /\ WINDOW_WIDTH = 400
  /\ WINDOW_HEIGHT = 812
  /\ hasNotchOrDynamicIsland
  /\ result.value = FALSE

\* C9: hasNotchOrDynamicIsland implies hasHomeIndicator; an iOS tablet has a
\* home indicator iff its longer side is at least 1024; getBottomInset is 34
\* exactly when hasHomeIndicator is true and 0 otherwise, so 0 on Android.
C9_HomeIndicatorAndInset ==
  /\ call.fn = "hasHomeIndicator" =>
       /\ hasNotchOrDynamicIsland => result.value
       /\ (OS = "ios" /\ isPad) => (result.value <=> LongerSide >= 1024)
  /\ call.fn = "getBottomInset" =>
       /\ result.value = (IF hasHomeIndicator THEN 34 ELSE 0)
       /\ (OS = "ios" /\ isPad) => (result.value = 34 <=> LongerSide >= 1024)
       /\ OS = "android" => result.value = 0

\* an iOS tablet below 1024 points has no bottom inset
C9_Witness ==
  /\ call.fn = "getBottomInset"
  /\ OS = "ios"
  /\ isPad
  /\ LongerSide = 852
  /\ result.value = 0

\* C10: getStatusBarHeight is 24 on an iOS tablet, 47 on an iOS phone with
\* hasNotchOrDynamicIsland, 20 on an iOS phone without it, 24 on Android.
C10_StatusBarHeightTable ==
  call.fn = "getStatusBarHeight" =>
    /\ (OS = "ios" /\ isPad) => result.value = 24
    /\ (OS = "ios" /\ ~isPad /\ hasNotchOrDynamicIsland) => result.value = 47
    /\ (OS = "ios" /\ ~isPad /\ ~hasNotchOrDynamicIsland) => result.value = 20
    /\ OS = "android" => result.value = 24

\* an iOS phone with a notch reports 47
C10_Witness ==
  /\ call.fn = "getStatusBarHeight"
  /\ OS = "ios"
  /\ ~isPad
  /\ hasNotchOrDynamicIsland
  /\ result.value = 47

(***************************************************************************)
(* Properties of getBlurIntensity (checked under SpecVisual)               *)
(***************************************************************************)
\* the base intensity of the claim
BlurBaseOfClaim(level) ==
  CASE level = "subtle" -> 10
    [] level = "light" -> 25
    [] level = "regular" -> 50
    [] level = "heavy" -> 80
    [] OTHER -> 50

\* the maximum of the claim: 100 on iOS; on Android 80 / 60 / 40 / 20 for a
\* pixel ratio (in halves) of at least 3 / 2.5 / 2 / below 2
BlurMaxOfClaim ==
  IF OS = "ios" THEN 100
  ELSE IF PIXEL_RATIO >= 6 THEN 80
  ELSE IF PIXEL_RATIO >= 5 THEN 60
  ELSE IF PIXEL_RATIO >= 4 THEN 40
  ELSE 20

\* the nearest integer to base * max / 100: twice the distance is at most 1
NearestTo(value, num, den) ==
  /\ 2 * (value * den - num) <= den
  /\ 2 * (num - value * den) <= den

TypographyCall == call.fn = "getOpticalTypography"

\* the weight in effect: 'normal' when none is passed
WeightOfCall ==
  IF call.weight.type = "undefined"
  THEN Str(<<"n", "o", "r", "m", "a", "l">>) ELSE call.weight

\* the size-band base of the claim, in thousandths
TrackingBaseOfClaim(fontSize) ==
  IF fontSize < 14 THEN 500
  ELSE IF fontSize < 20 THEN 200
  ELSE IF fontSize < 34 THEN 0
  ELSE 0 - 500

HeavySymbolicWeights == {<<"s", "e", "m", "i", "b", "o", "l", "d">>, <<"b", "o", "l", "d">>}

\* C12: for the symbolic weights the letter spacing is the size-band base
\* (0.5 below 14, 0.2 below 20, 0 below 34, -0.5 otherwise) plus 0.1 for
\* semibold and bold and plus 0 for normal, regular and medium; so below 14
\* 'bold' gives 0.6.
C12_SymbolicWeightTracking ==
  (TypographyCall /\ WeightOfCall.type = "string"
     /\ WeightOfCall.val \in SymbolicWeights) =>
    /\ result.kind = "return"
    /\ result.value.letterSpacing =
         TrackingBaseOfClaim(call.fontSize)
           + (IF WeightOfCall.val \in HeavySymbolicWeights THEN 100 ELSE 0)
    /\ (call.fontSize < 14 /\ WeightOfCall.val = <<"b", "o", "l", "d">>) =>
         result.value.letterSpacing = 600

\* font size 13 with 'bold' gives a letter spacing of 0.6
C12_Witness ==
  /\ TypographyCall
  /\ call.fontSize = 13
  /\ call.weight = Str(<<"b", "o", "l", "d">>)
  /\ result.value.letterSpacing = 600
  /\ result.value.fontWeight = Str(<<"7", "0", "0">>)

\* the weight has a numeric value of at least 600: the mapped value of a
\* symbolic weight, the number itself, the value of a numeral, 400 for an
\* absent or empty weight; a word has no numeric value
WeightAtLeast600OfClaim ==
  LET w == WeightOfCall
  IN  IF w.type = "number" THEN w.val >= 600
      ELSE IF w.val \in SymbolicWeights THEN w.val \in HeavySymbolicWeights
      ELSE IF w.val = <<>> THEN FALSE
      ELSE IsDecimal(w.val) /\ DecimalValue(w.val) >= 600

\* C18 as claimed: for every weight, also the unrecognized ones passed
\* through unchanged ('100', '800', '900', '1000', a word), the 0.1 bonus is
\* added iff the numeric value of the weight is at least 600.
C18_BonusIffNumericWeight ==
  TypographyCall =>
    ((result.value.letterSpacing = TrackingBaseOfClaim(call.fontSize) + 100)
       <=> WeightAtLeast600OfClaim)

(***************************************************************************)
(* Properties of getBackdropColor (checked under SpecText)                 *)
(***************************************************************************)
ColorCall == call.fn = "getBackdropColor" /\ call.baseColor.type = "string"

\* the digits of the colour passed, without the optional '#'
DigitsOfCall ==
  LET c == call.baseColor.val
  IN  IF c # <<>> /\ c[1] = "#" THEN SubSeq(c, 2, Len(c)) ELSE c

\* a valid 3-digit or 6-digit hex colour
ValidHexOfCall ==
  /\ Len(DigitsOfCall) \in {3, 6}
  /\ \A i \in 1..Len(DigitsOfCall) : IsHexChar(DigitsOfCall[i])

\* the channel the claim expects: a 3-digit nibble doubled, or two digits
ChannelOfClaim(k) ==
  LET d == DigitsOfCall
  IN  IF Len(d) = 3 THEN 17 * HexValue(d[k])
      ELSE 16 * HexValue(d[2 * k - 1]) + HexValue(d[2 * k])

\* the opacity passed (0.8 when absent) limited to [0, 1], in thousandths
AlphaOfClaim ==
  LET o == IF call.opacity.type = "number" THEN call.opacity.val ELSE 800
  IN  IF o < 0 THEN 0 ELSE IF o > 1000 THEN 1000 ELSE o

\* C13: for every valid 3-digit or 6-digit hex colour (with or without '#',
\* any letter case) and every opacity, the result is the rgba string of the
\* parsed channels, each 3-digit nibble doubled, with the opacity clamped to
\* [0, 1]: '#fff' gives 255, 255, 255 and opacity 2 gives alpha 1.
C13_HexParsedOpacityClamped ==
  (ColorCall /\ ValidHexOfCall) =>
    /\ result.kind = "return"
    /\ result.value =
         <<"rgba(", ChannelOfClaim(1), ", ", ChannelOfClaim(2), ", ",
           ChannelOfClaim(3), ", ", AlphaOfClaim, ")">>

\* '#bad' with opacity 2 gives rgba(187, 170, 221, 1)
C13_Witness ==
  /\ ColorCall
  /\ call.baseColor = Str(<<"#", "b", "a", "d">>)
  /\ call.opacity = Num(2000)
  /\ result.value = <<"rgba(", 187, ", ", 170, ", ", 221, ", ", 1000, ")">>

\* C14 as claimed: every malformed colour string raises no error and gives
\* opaque white, 255, 255, 255 with alpha 1, whatever opacity was passed.
C14_MalformedOpaqueWhite ==
  (ColorCall /\ ~ValidHexOfCall) =>
    /\ result.kind = "return"
    /\ result.value = <<"rgba(", 255, ", ", 255, ", ", 255, ", ", 1000, ")">>

\* C14 as amended: every malformed colour string raises no error and gives
\* white, 255, 255, 255, with the alpha the opacity passed clamped to [0, 1].
C14_MalformedWhiteClampedAlpha ==
  (ColorCall /\ ~ValidHexOfCall) =>
    /\ result.kind = "return"
    /\ result.value =
         <<"rgba(", 255, ", ", 255, ", ", 255, ", ", AlphaOfClaim, ")">>

\* '#ggg' with opacity 0.5 gives rgba(255, 255, 255, 0.5)
C14_Witness ==
  /\ ColorCall
  /\ call.baseColor = Str(<<"#", "g", "g", "g">>)
  /\ call.opacity = Num(500)
  /\ result.value = <<"rgba(", 255, ", ", 255, ", ", 255, ", ", 500, ")">>

(***************************************************************************)
(* Properties of the computed corner radius (checked under SpecVisual)     *)
(***************************************************************************)
\* a call that reaches the computation: a known size and no pill
ComputedRadiusCall ==
  SizeGiven /\ SmallerSideOfCall > 0 /\ VariantOfCall # "pill"

\* the base radius of the variant, in points
BaseRadiusOfClaim ==
  CASE VariantOfCall = "small" -> 4
    [] VariantOfCall = "large" -> 16
    [] OTHER -> 10

\* C16 as claimed: for every non-pill variant and every size whose smaller
\* side is above 0, the radius lies within [baseRadius / 2, baseSize * 0.25];
\* it is never more than a quarter of the smaller side.
C16_RadiusWithinBounds ==
  ComputedRadiusCall =>
    /\ result.kind = "return"
    /\ result.value >= BaseRadiusOfClaim * 500
    /\ result.value <= SmallerSideOfCall * 250

\* the scale factor of the variant, in ten-thousandths
ScaleFactorOfClaim ==
  CASE VariantOfCall = "small" -> 800
    [] VariantOfCall = "large" -> 1200
    [] OTHER -> 1000

\* the adjustment of the claim: times 1.2 on an iOS device of the modern
\* form factor only, unchanged on any other iOS device, times 0.75 on Android
AdjustedScaleFactorOfClaim ==
  IF OS = "ios"
  THEN IF isIPhone12OrNewer THEN (ScaleFactorOfClaim * 12) \div 10
       ELSE ScaleFactorOfClaim
  ELSE (ScaleFactorOfClaim * 3) \div 4

\* the radius computed from that scale factor and clamped as the code clamps
RadiusOfClaim ==
  LET b == SmallerSideOfCall
      computed ==
        BaseRadiusOfClaim * 1000
          + (Log10Centi(IF b > 100 THEN b ELSE 100) * b
               * AdjustedScaleFactorOfClaim) \div 20000
      capped == IF computed < b * 250 THEN computed ELSE b * 250
  IN  IF capped > BaseRadiusOfClaim * 500 THEN capped
      ELSE BaseRadiusOfClaim * 500

\* C17 as claimed: the scale factor is multiplied by 1.2 only on iOS devices
\* for which isIPhone12OrNewer is true; on any other iOS device the scale
\* factor of the variant is used unchanged, and on Android it is multiplied
\* by 0.75.
C17_ModernFormFactorOnly ==
  (ComputedRadiusCall /\ OS \in {"ios", "android"}) =>
    /\ result.kind = "return"
    /\ result.value = RadiusOfClaim

(***************************************************************************)
(* Properties of the token tree (checked under Spec)                       *)
(***************************************************************************)
TokensRead == call.fn = "navigationTokens" /\ result.kind = "return"

\* C19 as claimed: for every device the capability leaves of the token tree
\* equal the detector's facts: spacing.header.statusBarHeight is
\* detection.getStatusBarHeight() and spacing.tabBar.bottomInset is
\* detection.getBottomInset().
C19_TokenLeavesEqualDetection ==
  TokensRead =>
    /\ result.value.spacing.header.statusBarHeight = Num(getStatusBarHeight)
    /\ result.value.spacing.tabBar.bottomInset = Num(getBottomInset)

====
